---- MODULE Spec2Model ----
(***************************************************************************)
(* Model of remote_server.py: the /init endpoint, the worker thread it     *)
(* starts for each request, the per-rollout logger with its rollout-id     *)
(* filter, and the process-wide force_early_error_message set by main().   *)
(*                                                                         *)
(* Each /init invocation occupies one slot 1..MaxCalls.  The log stream is *)
(* kept per emitting worker (emitted[k]): records of one worker are in     *)
(* program order, records of different workers are unordered.              *)
(***************************************************************************)
EXTENDS Integers, Sequences, FiniteSets, TLC

\* ---------------------------------------------------------------- bounds
MaxCalls == 2

Slots == 1..MaxCalls

\* ------------------------------------------------------------ value sets
None == "<None>"

RolloutIds == {"r1", "r2"}

\* values of --force-early-error: absent, the empty string, a message
OverrideArgs == {None, "", "boom"}

EmptyMessages == << >>

NoTools == << >>

NoReq == [rollout_id |-> None, messages |-> EmptyMessages, completion_params |-> {}, tools |-> NoTools]

\* the request bodies submitted to /init: completion_params is a set of
\* <<key, value>> pairs; a missing and an empty messages/tools list are both
\* falsy and modelled alike.  Requests share rollout ids, the same request
\* may be submitted more than once, and one carries a falsy "model".
Requests == {
    [rollout_id |-> "r1", messages |-> <<"hi">>, completion_params |-> {<<"model", "m">>}, tools |-> NoTools],
    [rollout_id |-> "r2", messages |-> <<"hi">>, completion_params |-> {<<"model", "m">>, <<"temperature", "0">>}, tools |-> <<"t">>],
    [rollout_id |-> "r1", messages |-> EmptyMessages, completion_params |-> {<<"model", "m">>}, tools |-> NoTools],
    [rollout_id |-> "r2", messages |-> <<"hi">>, completion_params |-> {<<"temperature", "0">>}, tools |-> NoTools],
    [rollout_id |-> "r1", messages |-> <<"hi">>, completion_params |-> {<<"model", "">>}, tools |-> NoTools] }

\* --------------------------------------------------------- pure helpers
\* Python truthiness of an optional string
Truthy(s) == s # None /\ s # ""

\* dict.get(key): the value stored under key, None when the key is absent
Get(d, key) == IF \E p \in d : p[1] = key THEN (CHOOSE p \in d : p[1] = key)[2] ELSE None

\* Status.rollout_finished(), Status.rollout_error(message), and a record without status
NoStatus == [kind |-> "None", message |-> ""]

rollout_finished == [kind |-> "Finished", message |-> ""]

rollout_error(m) == [kind |-> "Error", message |-> m]

NoArgs == [messages |-> EmptyMessages, params |-> {}, tools |-> NoTools, has_tools |-> FALSE]

\* completion_kwargs = {"messages": req.messages, **req.completion_params},
\* plus "tools" only when req.tools is truthy
completion_kwargs(r) == [messages |-> r.messages, params |-> r.completion_params, tools |-> r.tools, has_tools |-> r.tools # NoTools]

\* `except Exception` catches every exception class raised in the worker body
CatchesValueErrorOnly(e) == e = "ValueError"

Catches(e) == e \in {"ValueError", "OpenAIError", "APIError", "RuntimeError"}

\* phase: "boot" until main() has run, then "serving"
\* force_early_error_message: the module global of that name
\* req[k]: the request of the k-th /init invocation
\* initPc[k], initResult[k]: position and response of that init invocation
\* filters[name]: the RolloutIdFilters added to the logger of rollout `name`
\* pc[k]: position of the worker thread of invocation k
\* callState[k], calls[k]: state and number of its completion calls
\* exc[k]: the exception raised in its body; escaped[k]: it left the thread
\* emitted[k]: the records the worker has handed to the tracing handler
VARIABLES phase, force_early_error_message, req, initPc, initResult, filters, pc, callState, calls, exc, escaped, emitted

vars == <<phase, force_early_error_message, req, initPc, initResult, filters, pc, callState, calls, exc, escaped, emitted>>

\* a variant that stamps one fixed rollout id whatever the logger
StampUnscoped(name) == "r1"

\* RolloutIdFilter: the rollout_id the filters of logger `name` stamp on a record
Stamp(name) == IF filters[name] = << >> THEN None ELSE filters[name][Len(filters[name])]

\* logger.info / logger.error on the rollout's logger
LogRecord(k, level, msg, status, args) == [rollout_id |-> Stamp(req[k].rollout_id), logger |-> req[k].rollout_id, level |-> level, msg |-> msg, status |-> status, args |-> args]

Emit(k, level, msg, status, args) == emitted' = [emitted EXCEPT ![k] = Append(@, LogRecord(k, level, msg, status, args))]

\* ------------------------------------------------------------------ Init
Init ==
    /\ phase = "boot"
    /\ force_early_error_message = None
    /\ req = [k \in Slots |-> NoReq]
    /\ initPc = [k \in Slots |-> "idle"]
    /\ initResult = [k \in Slots |-> "none"]
    /\ filters = [r \in RolloutIds |-> << >>]
    /\ pc = [k \in Slots |-> "idle"]
    /\ callState = [k \in Slots |-> "none"]
    /\ calls = [k \in Slots |-> 0]
    /\ exc = [k \in Slots |-> "none"]
    /\ escaped = [k \in Slots |-> FALSE]
    /\ emitted = [k \in Slots |-> << >>]

\* main(): parse --force-early-error, store it, start serving
Main(arg) ==
    /\ phase = "boot"
    /\ phase' = "serving"
    /\ force_early_error_message' = arg
    /\ UNCHANGED <<req, initPc, initResult, filters, pc, callState, calls, exc, escaped, emitted>>

\* --------------------------------------------------------------- /init
\* a variant that adds a filter only to a logger that has none yet
InitAddFilterOnce(k, r) ==
    /\ phase = "serving"
    /\ initPc[k] = "idle"
    /\ \A j \in Slots : j < k => initPc[j] # "idle"
    /\ req' = [req EXCEPT ![k] = r]
    /\ filters' = [filters EXCEPT ![r.rollout_id] = IF @ = << >> THEN Append(@, r.rollout_id) ELSE @]
    /\ initPc' = [initPc EXCEPT ![k] = "filtered"]
    /\ UNCHANGED <<phase, force_early_error_message, initResult, pc, callState, calls, exc, escaped, emitted>>

\* a variant that attaches every filter to one logger shared by all rollouts
InitAddFilterSharedLogger(k, r) ==
    /\ phase = "serving"
    /\ initPc[k] = "idle"
    /\ \A j \in Slots : j < k => initPc[j] # "idle"
    /\ req' = [req EXCEPT ![k] = r]
    /\ filters' = [filters EXCEPT !["r1"] = Append(@, r.rollout_id)]
    /\ initPc' = [initPc EXCEPT ![k] = "filtered"]
    /\ UNCHANGED <<phase, force_early_error_message, initResult, pc, callState, calls, exc, escaped, emitted>>

\* the framework invokes init(req) on a request-handling thread;
\* logger = getLogger(name.rollout_id); logger.addFilter(RolloutIdFilter(rollout_id))
InitAddFilter(k, r) ==
    /\ phase = "serving"
    /\ initPc[k] = "idle"
    /\ \A j \in Slots : j < k => initPc[j] # "idle"    \* invocations are numbered in arrival order
    /\ req' = [req EXCEPT ![k] = r]
    /\ filters' = [filters EXCEPT ![r.rollout_id] = Append(@, r.rollout_id)]
    /\ initPc' = [initPc EXCEPT ![k] = "filtered"]
    /\ UNCHANGED <<phase, force_early_error_message, initResult, pc, callState, calls, exc, escaped, emitted>>

\* t = threading.Thread(target=_worker, daemon=True); t.start()
InitStart(k) ==
    /\ initPc[k] = "filtered"
    /\ initPc' = [initPc EXCEPT ![k] = "started"]
    /\ pc' = [pc EXCEPT ![k] = "validate"]
    /\ UNCHANGED <<phase, force_early_error_message, req, initResult, filters, callState, calls, exc, escaped, emitted>>

\* a variant that joins the worker before returning
InitReturnAfterJoin(k) ==
    /\ initPc[k] = "started"
    /\ pc[k] = "done"
    /\ initPc' = [initPc EXCEPT ![k] = "returned"]
    /\ initResult' = [initResult EXCEPT ![k] = "accepted"]
    /\ UNCHANGED <<phase, force_early_error_message, req, filters, pc, callState, calls, exc, escaped, emitted>>

\* init falls off its end: the response is sent, whatever the worker is doing
InitReturn(k) ==
    /\ initPc[k] = "started"
    /\ initPc' = [initPc EXCEPT ![k] = "returned"]
    /\ initResult' = [initResult EXCEPT ![k] = "accepted"]
    /\ UNCHANGED <<phase, force_early_error_message, req, filters, pc, callState, calls, exc, escaped, emitted>>

\* -------------------------------------------------------------- _worker
Goto(k, loc) == pc' = [pc EXCEPT ![k] = loc]

Raise(k, e) == /\ exc' = [exc EXCEPT ![k] = e]
               /\ Goto(k, "except")

\* a variant whose check accepts a model that is present but falsy, and any messages
WorkerValidateKeyOnly(k) ==
    /\ pc[k] = "validate"
    /\ IF Get(req[k].completion_params, "model") = None
         THEN Raise(k, "ValueError")
         ELSE Goto(k, "log_kwargs") /\ UNCHANGED exc
    /\ UNCHANGED <<phase, force_early_error_message, req, initPc, initResult, filters, callState, calls, escaped, emitted>>

\* if not req.messages: raise ValueError; model = completion_params.get("model");
\* if not model: raise ValueError
WorkerValidate(k) ==
    /\ pc[k] = "validate"
    /\ IF req[k].messages = EmptyMessages \/ ~Truthy(Get(req[k].completion_params, "model"))
         THEN Raise(k, "ValueError")
         ELSE Goto(k, "log_kwargs") /\ UNCHANGED exc
    /\ UNCHANGED <<phase, force_early_error_message, req, initPc, initResult, filters, callState, calls, escaped, emitted>>

\* a variant that drops the record of the merged arguments
WorkerLogKwargsSilent(k) ==
    /\ pc[k] = "log_kwargs"
    /\ Goto(k, "dispatch")
    /\ UNCHANGED <<phase, force_early_error_message, req, initPc, initResult, filters, callState, calls, exc, escaped, emitted>>

\* build completion_kwargs and logger.info("Final completion_kwargs: ...")
WorkerLogKwargs(k) ==
    /\ pc[k] = "log_kwargs"
    /\ Emit(k, "INFO", "kwargs", NoStatus, completion_kwargs(req[k]))
    /\ Goto(k, "dispatch")
    /\ UNCHANGED <<phase, force_early_error_message, req, initPc, initResult, filters, callState, calls, exc, escaped>>

\* a variant that makes the call under a process-wide lock
WorkerDispatchExclusive(k) ==
    /\ pc[k] = "dispatch"
    /\ \A j \in Slots : pc[j] # "in_call"
    /\ \/ /\ Emit(k, "INFO", "sending", NoStatus, NoArgs)
          /\ callState' = [callState EXCEPT ![k] = "pending"]
          /\ calls' = [calls EXCEPT ![k] = @ + 1]
          /\ Goto(k, "in_call")
          /\ UNCHANGED exc
       \/ /\ Raise(k, "OpenAIError")
          /\ UNCHANGED <<callState, calls, emitted>>
    /\ UNCHANGED <<phase, force_early_error_message, req, initPc, initResult, filters, escaped>>

\* client = OpenAI(base_url=..., api_key=os.environ.get(...)), which raises
\* when no credential is configured; logger.info("Sending completion request");
\* client.chat.completions.create(**completion_kwargs) is issued and the
\* worker thread is suspended until the provider answers
WorkerDispatch(k) ==
    /\ pc[k] = "dispatch"
    /\ \/ /\ Emit(k, "INFO", "sending", NoStatus, NoArgs)
          /\ callState' = [callState EXCEPT ![k] = "pending"]
          /\ calls' = [calls EXCEPT ![k] = @ + 1]
          /\ Goto(k, "in_call")
          /\ UNCHANGED exc
       \/ /\ Raise(k, "OpenAIError")
          /\ UNCHANGED <<callState, calls, emitted>>
    /\ UNCHANGED <<phase, force_early_error_message, req, initPc, initResult, filters, escaped>>

\* the completion call returns a completion
WorkerCallReturn(k) ==
    /\ pc[k] = "in_call"
    /\ callState' = [callState EXCEPT ![k] = "returned"]
    /\ Goto(k, "after_call")
    /\ UNCHANGED <<phase, force_early_error_message, req, initPc, initResult, filters, calls, exc, escaped, emitted>>

\* the completion call raises (network, auth, provider error)
WorkerCallRaise(k) ==
    /\ pc[k] = "in_call"
    /\ callState' = [callState EXCEPT ![k] = "raised"]
    /\ Raise(k, "APIError")
    /\ UNCHANGED <<phase, force_early_error_message, req, initPc, initResult, filters, calls, escaped, emitted>>

\* a variant in which the override is consumed by the first worker it fires in
WorkerAfterCallOneShot(k) ==
    /\ pc[k] = "after_call"
    /\ IF Truthy(force_early_error_message)
         THEN /\ emitted' = [emitted EXCEPT ![k] = @ \o << LogRecord(k, "INFO", "completed", NoStatus, NoArgs),
                                                         LogRecord(k, "ERROR", "override", rollout_error(force_early_error_message), NoArgs) >>]
              /\ Raise(k, "RuntimeError")
              /\ force_early_error_message' = None
         ELSE /\ Emit(k, "INFO", "completed", NoStatus, NoArgs)
              /\ Goto(k, "finally")
              /\ UNCHANGED <<exc, force_early_error_message>>
    /\ UNCHANGED <<phase, req, initPc, initResult, filters, callState, calls, escaped>>

\* logger.info("Completed response: ..."); if force_early_error_message:
\* logger.error(message, extra={"status": rollout_error(message)}) and
\* raise RuntimeError(message)
WorkerAfterCall(k) ==
    /\ pc[k] = "after_call"
    /\ IF Truthy(force_early_error_message)
         THEN /\ emitted' = [emitted EXCEPT ![k] = @ \o << LogRecord(k, "INFO", "completed", NoStatus, NoArgs),
                                                         LogRecord(k, "ERROR", "override", rollout_error(force_early_error_message), NoArgs) >>]
              /\ Raise(k, "RuntimeError")
         ELSE /\ Emit(k, "INFO", "completed", NoStatus, NoArgs)
              /\ Goto(k, "finally")
              /\ UNCHANGED exc
    /\ UNCHANGED <<phase, force_early_error_message, req, initPc, initResult, filters, callState, calls, escaped>>

\* a variant that retries a failed completion call once
WorkerExceptRetry(k) ==
    /\ pc[k] = "except"
    /\ IF Catches(exc[k])
         THEN Emit(k, "ERROR", "error", NoStatus, NoArgs) /\ UNCHANGED escaped
         ELSE escaped' = [escaped EXCEPT ![k] = TRUE] /\ UNCHANGED emitted
    /\ IF exc[k] = "APIError" /\ calls[k] < 2 THEN Goto(k, "dispatch") ELSE Goto(k, "finally")
    /\ UNCHANGED <<phase, force_early_error_message, req, initPc, initResult, filters, callState, calls, exc>>

\* a variant whose handler reports the failure as an Error status
WorkerExceptReportsError(k) ==
    /\ pc[k] = "except"
    /\ IF Catches(exc[k])
         THEN Emit(k, "ERROR", "error", rollout_error(exc[k]), NoArgs) /\ UNCHANGED escaped
         ELSE escaped' = [escaped EXCEPT ![k] = TRUE] /\ UNCHANGED emitted
    /\ Goto(k, "finally")
    /\ UNCHANGED <<phase, force_early_error_message, req, initPc, initResult, filters, callState, calls, exc>>

\* except Exception as e: logger.error("Error in rollout ..."); pass
WorkerExcept(k) ==
    /\ pc[k] = "except"
    /\ IF Catches(exc[k])
         THEN Emit(k, "ERROR", "error", NoStatus, NoArgs) /\ UNCHANGED escaped
         ELSE escaped' = [escaped EXCEPT ![k] = TRUE] /\ UNCHANGED emitted
    /\ Goto(k, "finally")
    /\ UNCHANGED <<phase, force_early_error_message, req, initPc, initResult, filters, callState, calls, exc>>

\* a variant whose finally block does not test the override
WorkerFinallyUnconditional(k) ==
    /\ pc[k] = "finally"
    /\ Emit(k, "INFO", "done", rollout_finished, NoArgs)
    /\ Goto(k, "done")
    /\ UNCHANGED <<phase, force_early_error_message, req, initPc, initResult, filters, callState, calls, exc, escaped>>

\* a variant that reports completion only when the body raised nothing
WorkerFinallyAsElse(k) ==
    /\ pc[k] = "finally"
    /\ IF ~Truthy(force_early_error_message) /\ exc[k] = "none"
         THEN Emit(k, "INFO", "done", rollout_finished, NoArgs)
         ELSE UNCHANGED emitted
    /\ Goto(k, "done")
    /\ UNCHANGED <<phase, force_early_error_message, req, initPc, initResult, filters, callState, calls, exc, escaped>>

\* finally: if not force_early_error_message: logger.info("... completed",
\* extra={"status": rollout_finished()}); then the thread ends
WorkerFinally(k) ==
    /\ pc[k] = "finally"
    /\ IF ~Truthy(force_early_error_message)
         THEN Emit(k, "INFO", "done", rollout_finished, NoArgs)
         ELSE UNCHANGED emitted
    /\ Goto(k, "done")
    /\ UNCHANGED <<phase, force_early_error_message, req, initPc, initResult, filters, callState, calls, exc, escaped>>

Next ==
    \/ \E arg \in OverrideArgs : Main(arg)
    \/ \E k \in Slots, r \in Requests : InitAddFilter(k, r)
    \/ \E k \in Slots : InitStart(k)
    \/ \E k \in Slots : InitReturn(k)
    \/ \E k \in Slots : WorkerValidate(k)
    \/ \E k \in Slots : WorkerLogKwargs(k)
    \/ \E k \in Slots : WorkerDispatch(k)
    \/ \E k \in Slots : WorkerCallReturn(k)
    \/ \E k \in Slots : WorkerCallRaise(k)
    \/ \E k \in Slots : WorkerAfterCall(k)
    \/ \E k \in Slots : WorkerExcept(k)
    \/ \E k \in Slots : WorkerFinally(k)

Spec == Init /\ [][Next]_vars

\* ------------------------------------------------------- derived notions
IsTerminal(rec) == rec.status.kind \in {"Finished", "Error"}

Indices(k) == 1..Len(emitted[k])

TerminalIdx(k) == {i \in Indices(k) : IsTerminal(emitted[k][i])}

FinishedIdx(k) == {i \in Indices(k) : emitted[k][i].status.kind = "Finished"}

ErrorIdx(k) == {i \in Indices(k) : emitted[k][i].status.kind = "Error"}

KwargsIdx(k) == {i \in Indices(k) : emitted[k][i].msg = "kwargs"}

Started(k) == pc[k] # "idle"

\* the Request Model's rule: messages non-empty and "model" among the keys
ValidRequest(r) == r.messages # EmptyMessages /\ \E p \in r.completion_params : p[1] = "model"

OverrideSet == Truthy(force_early_error_message)

Submitted(k) == initPc[k] # "idle"

\* every step a started, unfinished worker can take
WorkerStep(k) ==
    \/ WorkerValidate(k)
    \/ WorkerLogKwargs(k)
    \/ WorkerDispatch(k)
    \/ WorkerCallReturn(k)
    \/ WorkerCallRaise(k)
    \/ WorkerAfterCall(k)
    \/ WorkerExcept(k)
    \/ WorkerFinally(k)

\* the dispatcher can take its next step for slot k
DispatcherFree(k) ==
    /\ (initPc[k] = "idle" /\ \A j \in Slots : j < k => initPc[j] # "idle") => \A r \in Requests : ENABLED InitAddFilter(k, r)
    /\ initPc[k] = "filtered" => ENABLED InitStart(k)
    /\ initPc[k] = "started" => ENABLED InitReturn(k)

TypeOK ==
    /\ phase \in {"boot", "serving"}
    /\ force_early_error_message \in OverrideArgs
    /\ \A k \in Slots : req[k] \in Requests \cup {NoReq}
    /\ \A k \in Slots : calls[k] \in 0..1

\* ================================================================ claims

\* C1: every worker that was started ends having emitted a terminal status
\* record (Finished or Error), on every path and with the override set or
\* unset.  Stated on the finished worker: a worker at "done" takes no further
\* step, so a terminal record missing there is never emitted.
C1_TerminalWhenWorkerEnds == \A k \in Slots : pc[k] = "done" => TerminalIdx(k) # {}

\* C2: in every reachable state each worker has emitted at most one terminal
\* status record, so never both an Error and a Finished, nor two of a kind.
C2_AtMostOneTerminal == \A k \in Slots : Cardinality(TerminalIdx(k)) <= 1

C2_Witness == \E k \in Slots : pc[k] = "done" /\ ErrorIdx(k) # {} /\ exc[k] = "RuntimeError"

\* C3: with the override set, every accepted rollout ends with the terminal
\* status Error(override message), whether the completion call or an earlier
\* step succeeded or raised.
C3_OverrideAlwaysError ==
    \A k \in Slots : (OverrideSet /\ pc[k] = "done") =>
        /\ TerminalIdx(k) # {}
        /\ \A i \in TerminalIdx(k) : emitted[k][i].status = rollout_error(force_early_error_message)

\* C4: with the override unset, a worker whose completion call raised swallows
\* the exception and emits exactly one Finished record and no Error record.
C4_CallFailureReportedFinished ==
    \A k \in Slots : (~OverrideSet /\ callState[k] = "raised") =>
        /\ ErrorIdx(k) = {}
        /\ ~escaped[k]
        /\ pc[k] = "done" => Cardinality(FinishedIdx(k)) = 1

C4_Witness == \E k \in Slots : ~OverrideSet /\ callState[k] = "raised" /\ pc[k] = "done"

\* C5: a request with missing/empty messages or without "model" is answered
\* with a ValidationError, starts no worker and produces no log record.
C5_InvalidRequestRejected ==
    \A k \in Slots : (Submitted(k) /\ ~ValidRequest(req[k])) =>
        /\ pc[k] = "idle"
        /\ emitted[k] = << >>
        /\ initPc[k] = "returned" => initResult[k] = "ValidationError"

\* C6: init returns without waiting for the worker: once the thread is
\* started the return step is enabled whatever the worker is doing, and no
\* completion call has been issued by the time init starts the thread.
C6_InitDoesNotWait ==
    \A k \in Slots :
        /\ initPc[k] = "started" => ENABLED InitReturn(k)
        /\ initPc[k] \in {"idle", "filtered"} => (callState[k] = "none" /\ calls[k] = 0)

C6_Witness == \E k \in Slots : initPc[k] = "returned" /\ pc[k] = "in_call" /\ callState[k] = "pending"

\* C7: the records of a worker end in its terminal status record: a record
\* carrying Finished or Error is the last record the worker emits.
C7_TerminalIsLast == \A k \in Slots : \A i \in TerminalIdx(k) : i = Len(emitted[k])

\* C8: for a valid request the record of the merged call arguments (messages,
\* completion_params, tools when present) is emitted before the completion
\* call is issued; with no override and a successful call exactly one Finished
\* record is logged, after that record.
C8_KwargsThenFinished ==
    \A k \in Slots :
        /\ callState[k] # "none" =>
              /\ Cardinality(KwargsIdx(k)) = 1
              /\ \A i \in KwargsIdx(k) :
                    /\ emitted[k][i].args.messages = req[k].messages
                    /\ emitted[k][i].args.params = req[k].completion_params
                    /\ emitted[k][i].args.has_tools = (req[k].tools # NoTools)
                    /\ emitted[k][i].args.tools = req[k].tools
                    /\ \A j \in Indices(k) : emitted[k][j].msg = "sending" => i < j
        /\ (~OverrideSet /\ callState[k] = "returned" /\ pc[k] = "done") =>
              /\ Cardinality(FinishedIdx(k)) = 1
              /\ ErrorIdx(k) = {}
              /\ \A i \in KwargsIdx(k) : \A j \in FinishedIdx(k) : i < j

C8_Witness == \E k \in Slots : ~OverrideSet /\ callState[k] = "returned" /\ pc[k] = "done" /\ req[k].tools # NoTools

\* C9: while a worker is suspended in its completion call, the dispatcher can
\* still accept, launch and answer requests and every other started worker
\* can take its next step.
C9_CallBlocksNobodyElse ==
    \A k \in Slots : pc[k] = "in_call" =>
        \A j \in Slots \ {k} :
            /\ DispatcherFree(j)
            /\ pc[j] \notin {"idle", "done"} => ENABLED WorkerStep(j)

C9_Witness == \E k, j \in Slots : k # j /\ pc[k] = "in_call" /\ pc[j] = "in_call"

\* C10: no exception raised in a worker body leaves the worker: each is caught
\* and logged there, init's caller still gets the accepted response, and the
\* dispatcher can go on accepting requests.
C10_NoFailureEscapes ==
    \A k \in Slots :
        /\ ~escaped[k]
        /\ (exc[k] # "none" /\ pc[k] \in {"finally", "done"}) => \E i \in Indices(k) : emitted[k][i].msg = "error"
        /\ initResult[k] \in {"none", "accepted"}
        /\ exc[k] # "none" => \A j \in Slots \ {k} : DispatcherFree(j)

C10_Witness == \E k, j \in Slots : pc[k] = "done" /\ exc[k] = "RuntimeError" /\ pc[j] = "done" /\ exc[j] = "APIError"

\* C11: with --force-early-error set, /init returns only after the
\* rollout_error status record with that message has been logged for the
\* request, and that record does not wait for the completion call.
C11_ErrorLoggedBeforeInitReturns ==
    \A k \in Slots : (OverrideSet /\ initPc[k] = "returned") =>
        \E i \in ErrorIdx(k) : emitted[k][i].status = rollout_error(force_early_error_message)

\* C12: a worker that has finished without emitting an Error status record
\* has emitted exactly one Finished status record, whether or not an override
\* is configured.
C12_FinishedUnlessOverrideFired ==
    \A k \in Slots : (pc[k] = "done" /\ ErrorIdx(k) = {}) => Cardinality(FinishedIdx(k)) = 1

\* C13: no retries: a worker issues the completion call at most once, and
\* once its body has raised it only logs the error, runs the finally block
\* and ends, without another call attempt.
C13_NoRetry ==
    \A k \in Slots :
        /\ calls[k] <= 1
        /\ Cardinality({i \in Indices(k) : emitted[k][i].msg = "sending"}) = calls[k]
        /\ exc[k] # "none" => pc[k] \in {"except", "finally", "done"}
        /\ callState[k] = "raised" => (calls[k] = 1 /\ exc[k] = "APIError")

C13_Witness == \E k \in Slots : pc[k] = "done" /\ callState[k] = "raised" /\ calls[k] = 1

\* C14: every record a worker emits carries the rollout_id of the request
\* that launched it, under any interleaving: the filter is on the rollout's
\* logger before the worker starts, and a worker logs through its own
\* rollout's logger only.
C14_RecordsCarryOwnRolloutId ==
    \A k \in Slots :
        /\ Started(k) => (filters[req[k].rollout_id] # << >> /\ Stamp(req[k].rollout_id) = req[k].rollout_id)
        /\ \A i \in Indices(k) : emitted[k][i].rollout_id = req[k].rollout_id /\ emitted[k][i].logger = req[k].rollout_id

C14_Witness ==
    \E k, j \in Slots :
        /\ req[k].rollout_id = "r1" /\ req[j].rollout_id = "r2"
        /\ pc[k] = "in_call" /\ pc[j] = "in_call"
        /\ emitted[k] # << >> /\ emitted[j] # << >>

\* C15: the override is read-only once the process serves: no step of init or
\* of a worker changes it, so a worker reads the same value at the override
\* check and in the finally block, and all workers see the same value.
C15_OverrideReadOnly == [][phase = "serving" => force_early_error_message' = force_early_error_message]_vars

C15_Witness ==
    \E k, j \in Slots :
        /\ k # j /\ phase = "serving" /\ OverrideSet
        /\ pc[k] = "done" /\ ErrorIdx(k) # {}
        /\ pc[j] = "done" /\ ErrorIdx(j) # {}

\* C16: in every reachable state the number of workers started equals the
\* number of init calls that were accepted, that is, that passed validation
\* and reached the start of the thread: none for a request that fails
\* validation.
C16_OneWorkerPerAcceptedCall ==
    Cardinality({k \in Slots : Started(k)}) = Cardinality({k \in Slots : initPc[k] \in {"started", "returned"} /\ ValidRequest(req[k])})

\* C17: filter registrations accumulate: every init call appends one filter
\* to the logger of its rollout_id, no step removes one, so each logger holds
\* as many filters as init calls were processed for its rollout_id (two for a
\* repeated rollout_id).
C17_FiltersAccumulate ==
    [][\A r \in RolloutIds :
          /\ Len(filters'[r]) >= Len(filters[r])
          /\ SubSeq(filters'[r], 1, Len(filters[r])) = filters[r]
          /\ Len(filters'[r]) = Cardinality({k \in Slots : initPc'[k] # "idle" /\ req'[k].rollout_id = r})
          /\ \A i \in 1..Len(filters'[r]) : filters'[r][i] = r]_vars

C17_Witness == \E k \in Slots : pc[k] = "done" /\ req[k].rollout_id = "r1" /\ Len(filters["r1"]) = 2

\* C18: a worker whose request has empty messages or no truthy "model" never
\* issues the completion call and never logs the merged-arguments record; it
\* logs the error and, with the override unset, still emits exactly one
\* Finished status record.
C18_InWorkerValidation ==
    \A k \in Slots :
        (Started(k) /\ (req[k].messages = EmptyMessages \/ ~Truthy(Get(req[k].completion_params, "model")))) =>
            /\ calls[k] = 0 /\ callState[k] = "none"
            /\ KwargsIdx(k) = {}
            /\ pc[k] \notin {"log_kwargs", "dispatch", "in_call", "after_call"}
            /\ pc[k] \in {"finally", "done"} => (exc[k] = "ValueError" /\ \E i \in Indices(k) : emitted[k][i].msg = "error")
            /\ (pc[k] = "done" /\ ~OverrideSet) => (Cardinality(FinishedIdx(k)) = 1 /\ ErrorIdx(k) = {})

C18_Witness ==
    \E k, j \in Slots :
        /\ ~OverrideSet
        /\ pc[k] = "done" /\ req[k].messages = EmptyMessages
        /\ pc[j] = "done" /\ req[j].messages # EmptyMessages /\ Get(req[j].completion_params, "model") = ""

\* C19: the variant of every status-carrying record is decided by the
\* override alone: Finished only when the override is unset (None or empty,
\* as the code tests it), Error only when it is set and with the override
\* message, and never a Running status.
C19_StatusDecidedByOverride ==
    \A k \in Slots : \A i \in Indices(k) :
        /\ emitted[k][i].status.kind \in {"None", "Finished", "Error"}
        /\ emitted[k][i].status.kind = "Finished" => (~OverrideSet /\ emitted[k][i].status = rollout_finished)
        /\ emitted[k][i].status.kind = "Error" => (OverrideSet /\ emitted[k][i].status.message = force_early_error_message)

C19_Witness ==
    \E k, j \in Slots :
        /\ pc[k] = "done" /\ exc[k] = "ValueError"
        /\ pc[j] = "done" /\ callState[j] = "returned" /\ TerminalIdx(j) # {}

\* the terminal status records tagged with rollout id r, over all workers
TerminalsTagged(r) == UNION {{<<k, i>> : i \in {n \in TerminalIdx(k) : emitted[k][n].rollout_id = r}} : k \in Slots}

\* C20: init neither rejects nor deduplicates a repeated rollout_id: for every
\* rollout_id the number of terminal status records tagged with it is at most
\* the number of workers launched with it, and exceeds one when the id was
\* submitted twice.
C20_TerminalsBoundedByWorkers ==
    \A r \in RolloutIds :
        /\ Cardinality(TerminalsTagged(r)) <= Cardinality({k \in Slots : Started(k) /\ req[k].rollout_id = r})
        /\ \A k \in Slots : (Submitted(k) /\ ~Started(k)) => ENABLED InitStart(k)

C20_Witness == \E r \in RolloutIds : Cardinality(TerminalsTagged(r)) = 2

====
